---- MODULE Spec2Model ----
(***************************************************************************)
(* Self-healing repair loop of the AI test platform.                       *)
(*                                                                         *)
(* The model covers auto_heal.py (failure extraction from the pytest       *)
(* report, case correlation, the repair request, the sanitizing pipeline   *)
(* and the attempt loop of __main__), the single-shot repair of            *)
(* auto_heal_trigger.py and the file-level behaviour of the                *)
(* script_generator.py / run_tests.py pipeline steps that recreate the     *)
(* scripts and the report between two orchestrator runs.                   *)
(*                                                                         *)
(* Texts are sequences of lines.  A report line is a record that says      *)
(* which marker the line carries; a script line is a record with its       *)
(* indentation (in columns) and its kind of statement.                     *)
(***************************************************************************)
EXTENDS Integers, Sequences, FiniteSets, TLC

(***************************************************************************)
(* Bounds of the model.                                                    *)
(***************************************************************************)
\* scripts test_playwright_1.py .. test_playwright_NumScripts.py
NumScripts == 2
\* orchestrator runs on the same script directory
MaxRuns == 2
\* lines of a report text drawn for the failure extractor
MaxReportLen == 3
\* cases of a case store drawn for the correlator
MaxCases == 3
\* lines of a text handed to a sanitizing function on its own
MaxTextLen == 3

(***************************************************************************)
(* Program constants.                                                      *)
(***************************************************************************)
max_heal_attempts_per_script == 2
max_retries == 1

\* a path at which no file exists
NoFile == [exists |-> FALSE]
Scripts == 1..NumScripts

(***************************************************************************)
(* Report texts.                                                           *)
(*   FAILED  : "FAILED <dir>/test_playwright_<s>.py[.healed]::t - msg"     *)
(*   ERRCOLL : "ERROR collecting <dir>/test_playwright_<s>.py[.healed]"    *)
(*   SEP     : "===== short test summary info ====="                       *)
(*   BLANK   : ""                                                          *)
(*   TEXT    : any other non-blank line, e.g. "E   assert 1 == 2"          *)
(* nl says whether the text ends with a newline.                           *)
(***************************************************************************)
MarkerKinds == {"FAILED", "ERRCOLL"}

RLine(k, s, h) == [k |-> k, s |-> s, h |-> h]

SepLine == RLine("SEP", 0, FALSE)
BlankLine == RLine("BLANK", 0, FALSE)
TextLine == RLine("TEXT", 0, FALSE)

IsMarker(l) == l.k \in MarkerKinds

Report(lines, nl) == [exists |-> TRUE, lines |-> lines, nl |-> nl]

\* what follows the captured path on a marker line: "::t - msg" after
\* FAILED, nothing after ERROR collecting, and ".healed" first when the
\* marker names a healed artifact (group 1 always ends in ".py")
MarkerRest(l) ==
    IF l.k = "FAILED" THEN << RLine("REST_FAILED", l.s, l.h) >>
    ELSE IF l.h THEN << RLine("REST_ERRCOLL", l.s, l.h) >>
    ELSE << >>

\* group 1 of failure_pattern: [\w\\/\.-]+\.py backtracks to the last ".py",
\* so the suffix ".healed" is never part of the captured path
CapturedPath(l) == [s |-> l.s, suffix |-> ".py"]

EndsWithHealed(path) == path.suffix = ".healed"

\* the lookahead (?=^==+ .+ ==+|^$) holds at the start of a separator line,
\* at the start of an empty line, and at the end of a text that ends with a
\* newline; 0 when it holds nowhere after line i
Terminator(rep, i) ==
    LET n == Len(rep.lines)
        stops == {j \in (i+1)..n : rep.lines[j].k \in {"SEP", "BLANK"}}
    IN  IF stops # {} THEN CHOOSE j \in stops : \A m \in stops : j <= m
        ELSE IF rep.nl THEN n + 1
        ELSE 0

\* str.strip() of the captured detail: the lines between the marker and
\* the terminator hold no blank line, so only the line breaks at both ends go
DetailOf(rep, i, j) == MarkerRest(rep.lines[i]) \o SubSeq(rep.lines, i + 1, j - 1)

\* failure_pattern.finditer(content): the matches in text order, each as
\* (group 1, stripped group 2); the search resumes where the match ended
RECURSIVE FindMatches(_, _)
FindMatches(rep, from) ==
    LET n == Len(rep.lines)
        starts == {i \in from..n : IsMarker(rep.lines[i])}
    IN  IF starts = {} THEN << >>
        ELSE LET i == CHOOSE x \in starts : \A m \in starts : x <= m
                 j == Terminator(rep, i)
             IN  IF j = 0 THEN FindMatches(rep, i + 1)
                 ELSE << [path |-> CapturedPath(rep.lines[i]),
                          detail |-> DetailOf(rep, i, j)] >>
                      \o FindMatches(rep, j)

HasKey(info, path) == \E i \in 1..Len(info) : info[i].path = path

\* the loop over the matches: healed paths skipped, first occurrence kept
RECURSIVE CollectFailed(_, _)
CollectFailed(matches, acc) ==
    IF matches = << >> THEN acc
    ELSE LET m == Head(matches)
         IN  IF EndsWithHealed(m.path) THEN CollectFailed(Tail(matches), acc)
             ELSE IF HasKey(acc, m.path) THEN CollectFailed(Tail(matches), acc)
             ELSE CollectFailed(Tail(matches), Append(acc, m))

\* the mapping {script_path: error_details} in insertion order
get_failed_tests_from_log(file) ==
    IF ~file.exists THEN << >>
    ELSE CollectFailed(FindMatches(file, 1), << >>)

(***************************************************************************)
(* Script texts: a sequence of lines [ind, k], ind the number of leading   *)
(* spaces and k the statement the stripped line holds:                     *)
(*   fence      ```                    fence_py   ```python                *)
(*   imp_pytest import pytest          imp_re     import re                *)
(*   imp_sync   from playwright.sync_api import sync_playwright            *)
(*   imp_expect from playwright.sync_api import expect                     *)
(*   imp_both   from playwright.sync_api import sync_playwright, expect    *)
(*   imp_requests import requests                                          *)
(*   def        def test_case():       try / except / finally  headers     *)
(*   stmt       x = 1                  pass       pass                     *)
(*   click      page.click("#ok")                                          *)
(*   wait       page.wait_for(state='visible', timeout=15000)              *)
(*   comment    # step                 blank      the empty line           *)
(*   prose      Here is the fixed script                                   *)
(*   imp_time   import time            assert_false  assert False          *)
(*   if         if ready:              doc        """Login test."""        *)
(* and what is left of a doc line when its quotes are cut away:            *)
(*   doc_tail   Login test."""         doc_head   """Login test.           *)
(*   doc_text   Login test.                                                *)
(***************************************************************************)
L(ind, k) == [ind |-> ind, k |-> k]

ImportKinds == {"imp_pytest", "imp_re", "imp_sync", "imp_expect", "imp_both",
                "imp_requests", "imp_time"}
FenceKinds == {"fence", "fence_py"}
HeaderKinds == {"def", "try", "except", "finally", "if"}

\* stripped lines that end with """ and those that start with it
EndsWithQuotes(l) == l.k \in {"doc", "doc_tail"}
StartsWithQuotes(l) == l.k \in {"doc", "doc_head"}
\* the kinds no Python text holds: a cut docstring leaves words that are no
\* statement, or a string that is never closed
CutKinds == {"doc_tail", "doc_head", "doc_text"}

\* line.strip().startswith("import") or line.strip().startswith("from")
IsImportLine(l) == l.k \in ImportKinds

TextFile(text) == [exists |-> TRUE, text |-> text]

\* A text is the sequence of its lines joined by line breaks: the text "x\n"
\* is << x, blank >> and the empty text is << >>.
\* str.splitlines(): the line break at the end of the text opens no line
SplitLines(text) ==
    IF text # << >> /\ text[Len(text)].k = "blank"
    THEN SubSeq(text, 1, Len(text) - 1)
    ELSE text

\* "\n".join(lines): one empty line is the empty text
JoinLines(lines) == IF lines = << L(0, "blank") >> THEN << >> ELSE lines

\* str.strip() of a text: the white space at both ends goes, the leading
\* spaces of the first remaining line included
DropLeadingBlank(text) ==
    LET keep == {i \in 1..Len(text) : text[i].k # "blank"}
    IN  IF keep = {} THEN << >>
        ELSE SubSeq(text, CHOOSE i \in keep : \A m \in keep : i <= m, Len(text))

DropTrailingBlank(text) ==
    LET keep == {i \in 1..Len(text) : text[i].k # "blank"}
    IN  IF keep = {} THEN << >>
        ELSE SubSeq(text, 1, CHOOSE i \in keep : \A m \in keep : i >= m)

Strip(text) ==
    LET t == DropTrailingBlank(DropLeadingBlank(text))
    IN  IF t = << >> THEN t ELSE << L(0, t[1].k) >> \o Tail(t)

\* re.search(r"```(?:[a-zA-Z]+)?\s*(.*?)\s*```", text, re.DOTALL): the
\* interior of the first pair of fences, stripped; the stripped text when
\* there is no such pair
clean_code_block(text) ==
    LET fences == {i \in 1..Len(text) : text[i].k \in FenceKinds}
    IN  IF Cardinality(fences) < 2 THEN Strip(text)
        ELSE LET i == CHOOSE x \in fences : \A m \in fences : x <= m
                 rest == fences \ {i}
                 j == CHOOSE x \in rest : \A m \in rest : x <= m
             IN  Strip(SubSeq(text, i + 1, j - 1))

\* the required_imports list of ensure_imports, in its order
required_imports == << "imp_pytest", "imp_sync", "imp_expect", "imp_re" >>

\* the test of ensure_imports for "imp is already imported by this line":
\*   imp.split(" import ")[-1] in existing and
\*   (imp.split(" import ")[0].replace("import ", "") in existing
\*    or imp in existing)
\* a substring test, so "import requests" counts as "import re"
Covers(k, imp) ==
    CASE imp = "imp_pytest" -> k = "imp_pytest"
      [] imp = "imp_sync"   -> k \in {"imp_sync", "imp_both"}
      [] imp = "imp_expect" -> k \in {"imp_expect", "imp_both"}
      [] imp = "imp_re"     -> k \in {"imp_re", "imp_requests"}
      [] OTHER              -> FALSE

InsertAt(seq, i, x) == SubSeq(seq, 1, i) \o << x >> \o SubSeq(seq, i + 1, Len(seq))

\* the backward scan for the insert position: after the last line that is
\* an import line or ends with """, at the top when there is none
InsertIndex(lines) ==
    LET imps == {i \in 1..Len(lines) : IsImportLine(lines[i]) \/ EndsWithQuotes(lines[i])}
    IN  IF imps = {} THEN 0 ELSE CHOOSE i \in imps : \A m \in imps : i >= m

RECURSIVE AddImports(_, _, _)
AddImports(lines, existing, n) ==
    IF n > Len(required_imports) THEN lines
    ELSE LET imp == required_imports[n]
         IN  IF \E k \in existing : Covers(k, imp)
             THEN AddImports(lines, existing, n + 1)
             ELSE AddImports(InsertAt(lines, InsertIndex(lines), L(0, imp)),
                             existing, n + 1)

ensure_imports(code) ==
    LET lines == SplitLines(code)
        existing_imports == {lines[i].k : i \in {j \in 1..Len(lines) : IsImportLine(lines[j])}}
    IN  JoinLines(AddImports(lines, existing_imports, 1))

\* a line matching ^(\s*)(.*?)\.(fill|click|type)\((.*)\)$ gets a wait_for
\* line of the same indentation before it, unless the line before already
\* is the wait_for of that locator
RECURSIVE AddWaits(_, _)
AddWaits(lines, processed) ==
    IF lines = << >> THEN processed
    ELSE LET line == Head(lines)
         IN  IF line.k = "click"
                /\ ~(processed # << >> /\ processed[Len(processed)].k = "wait")
             THEN AddWaits(Tail(lines), processed \o << L(line.ind, "wait"), line >>)
             ELSE AddWaits(Tail(lines), Append(processed, line))

add_wait_before_actions(code) == JoinLines(AddWaits(SplitLines(code), << >>))

\* stripped_line.endswith(':') and (startswith('try:') or
\* startswith('except') or startswith('finally:'))
IsTryHeader(l) == l.k \in {"try", "except", "finally"}

RECURSIVE FixBlocks(_, _, _)
FixBlocks(lines, i, processed) ==
    IF i > Len(lines) THEN processed
    ELSE LET line == lines[i]
             withLine == Append(processed, line)
             pass == L(line.ind + 4, "pass")
         IN  IF ~IsTryHeader(line) THEN FixBlocks(lines, i + 1, withLine)
             ELSE IF i + 1 > Len(lines)
                  THEN FixBlocks(lines, i + 1, Append(withLine, pass))
             ELSE LET next == lines[i + 1]
                      next_indent == IF next.k = "blank" THEN 0 ELSE next.ind
                  IN  IF (next_indent <= line.ind \/ next.k = "comment"
                          \/ next.k = "blank")
                         /\ next.k # "pass"
                      THEN FixBlocks(lines, i + 1, Append(withLine, pass))
                      ELSE FixBlocks(lines, i + 1, withLine)

fix_empty_blocks_with_pass(code) == JoinLines(FixBlocks(SplitLines(code), 1, << >>))

(***************************************************************************)
(* ast.parse on the line alphabet: fences, prose and cut docstrings are no *)
(* statements, a                                                           *)
(* header needs a deeper indented block, a statement is indented like an   *)
(* enclosing block, a try block is followed by except or finally, and      *)
(* except / finally follow a try or an except block of the same level.     *)
(* The stack holds, per open block, its indentation and the last           *)
(* statement seen in it.                                                   *)
(***************************************************************************)
Level(ind, prev) == [ind |-> ind, prev |-> prev]

Top(stack) == stack[Len(stack)]

SetPrev(stack, k) ==
    [stack EXCEPT ![Len(stack)].prev =
        IF k \in {"try", "except", "finally"} THEN k ELSE "other"]

\* the statement k may follow the last statement of its block
Follows(prev, k) ==
    IF k \in {"except", "finally"} THEN prev \in {"try", "except"}
    ELSE prev # "try"

\* close the blocks deeper than ind; 0 when a closed block ends in a bare try
RECURSIVE Dedent(_, _)
Dedent(stack, ind) ==
    IF Len(stack) > 1 /\ Top(stack).ind > ind
    THEN IF Top(stack).prev = "try" THEN << >>
         ELSE Dedent(SubSeq(stack, 1, Len(stack) - 1), ind)
    ELSE stack

RECURSIVE ParseLines(_, _, _, _)
ParseLines(text, i, stack, expect) ==
    IF i > Len(text)
    THEN ~expect /\ \A n \in 1..Len(stack) : stack[n].prev # "try"
    ELSE LET l == text[i]
         IN  IF l.k \in {"blank", "comment"} THEN ParseLines(text, i + 1, stack, expect)
             ELSE IF l.k \in FenceKinds \cup CutKinds \cup {"prose"} THEN FALSE
             ELSE IF expect
                  THEN l.ind > Top(stack).ind
                       /\ Follows("none", l.k)
                       /\ ParseLines(text, i + 1,
                                     SetPrev(Append(stack, Level(l.ind, "none")), l.k),
                                     l.k \in HeaderKinds)
             ELSE LET st == Dedent(stack, l.ind)
                  IN  st # << >>
                      /\ Top(st).ind = l.ind
                      /\ Follows(Top(st).prev, l.k)
                      /\ ParseLines(text, i + 1, SetPrev(st, l.k), l.k \in HeaderKinds)

is_valid_python(code) == ParseLines(code, 1, << Level(0, "none") >>, FALSE)

(***************************************************************************)
(* The generation pipeline of script_generator.py.                         *)
(***************************************************************************)
\* line.strip().startswith("```")
IsFence(l) == l.k \in FenceKinds

\* text[3:] of a text that starts with """ and text[:-3] of one that ends
\* with it: the quotes of the first and of the last line are cut away
CutStart(text) ==
    IF text # << >> /\ text[1].ind = 0 /\ StartsWithQuotes(text[1])
    THEN Strip([text EXCEPT ![1].k = IF @ = "doc" THEN "doc_tail" ELSE "doc_text"])
    ELSE text

CutEnd(text) ==
    IF text # << >> /\ EndsWithQuotes(text[Len(text)])
    THEN Strip([text EXCEPT ![Len(text)].k = IF @ = "doc" THEN "doc_head" ELSE "doc_text"])
    ELSE text

\* clean_code_block of script_generator.py: the leading fence lines go when
\* the stripped text starts with a fence and has more than one line, then a
\* closing ``` at the very end goes, then the """ at the start and at the end
gen_clean_code_block(text) ==
    LET t0 == Strip(text)
        body == {i \in 1..Len(t0) : ~IsFence(t0[i])}
        t1 == IF t0 # << >> /\ IsFence(t0[1]) /\ Len(t0) > 1 /\ body # {}
              THEN SubSeq(t0, CHOOSE i \in body : \A m \in body : i <= m, Len(t0))
              ELSE t0
        t2 == IF t1 # << >> /\ t1[Len(t1)].k = "fence"
              THEN Strip(SubSeq(t1, 1, Len(t1) - 1))
              ELSE t1
    IN  Strip(CutEnd(CutStart(t2)))

\* re.sub(r"^\s*assert\s+False\b.*$", "", code, flags=re.MULTILINE): \s*
\* also spans line breaks, so the empty lines right before the assertion go
\* with it and one empty line is left in their place
Blanks(n) == [i \in 1..n |-> L(0, "blank")]

\* pending counts the empty lines read since the last other line
RECURSIVE RemoveAsserts(_, _, _)
RemoveAsserts(lines, out, pending) ==
    IF lines = << >> THEN out \o Blanks(pending)
    ELSE LET l == Head(lines)
         IN  IF l.k = "blank" THEN RemoveAsserts(Tail(lines), out, pending + 1)
             ELSE IF l.k = "assert_false"
                  THEN RemoveAsserts(Tail(lines), Append(out, L(0, "blank")), 0)
             ELSE RemoveAsserts(Tail(lines), Append(out \o Blanks(pending), l), 0)

remove_invalid_asserts(code) == JoinLines(RemoveAsserts(code, << >>, 0))

\* stripped_line.endswith(':') and not stripped_line.startswith('#')
IsBlockHeader(l) == l.k \in HeaderKinds

RECURSIVE GenFixBlocks(_, _)
GenFixBlocks(lines, i) ==
    IF i > Len(lines) THEN lines
    ELSE LET line == lines[i]
             rest == {j \in (i + 1)..Len(lines) : lines[j].k # "blank"}
             pass == L(line.ind + 4, "pass")
         IN  IF ~IsBlockHeader(line) THEN GenFixBlocks(lines, i + 1)
             ELSE IF rest = {} THEN GenFixBlocks(InsertAt(lines, i, pass), i + 2)
             ELSE LET j == CHOOSE x \in rest : \A m \in rest : x <= m
                  IN  IF lines[j].ind <= line.ind
                      THEN GenFixBlocks(InsertAt(lines, i, pass), i + 2)
                      ELSE GenFixBlocks(lines, i + 1)

fix_empty_blocks(code) == JoinLines(GenFixBlocks(SplitLines(code), 1))

\* the required_imports set of ensure_imports_and_structure
gen_required_imports == {"imp_sync", "imp_pytest", "imp_time", "imp_expect"}

\* sorted(): the import statements in string order
ImportOrder == << "imp_expect", "imp_sync", "imp_both", "imp_pytest", "imp_re",
                 "imp_requests", "imp_time" >>

SortedImports(kinds) ==
    LET F[n \in 0..Len(ImportOrder)] ==
            IF n = 0 THEN << >>
            ELSE IF ImportOrder[n] \in kinds THEN Append(F[n - 1], L(0, ImportOrder[n]))
            ELSE F[n - 1]
    IN  F[Len(ImportOrder)]

\* the lines that are no import line, in their order
OtherLines(lines) ==
    LET F[n \in 0..Len(lines)] ==
            IF n = 0 THEN << >>
            ELSE IF ~IsImportLine(lines[n]) THEN Append(F[n - 1], lines[n])
            ELSE F[n - 1]
    IN  F[Len(lines)]

\* the import lines are taken out of the text wherever they stand; the
\* required imports that are not among them come first, then the existing
\* imports that are not required, an empty line, and the other lines
ensure_imports_and_structure(code) ==
    LET lines == SplitLines(code)
        existing_imports == {lines[i].k : i \in {j \in 1..Len(lines) : IsImportLine(lines[j])}}
        other_lines == OtherLines(lines)
        new_lines == SortedImports(gen_required_imports \ existing_imports)
                     \o SortedImports(existing_imports \ gen_required_imports)
                     \o (IF other_lines # << >> THEN << L(0, "blank") >> ELSE << >>)
                     \o other_lines
    \* the second pass renames the functions that lack the test_ prefix; the
    \* def line of the alphabet has it, so the pass only splits and joins again
    IN  JoinLines(SplitLines(JoinLines(new_lines)))

\* the formatting of validate_python_code: of consecutive empty lines the
\* first is kept
RECURSIVE SqueezeBlank(_, _, _)
SqueezeBlank(lines, out, previous_line_was_empty) ==
    IF lines = << >> THEN out
    ELSE LET l == Head(lines)
         IN  IF l.k = "blank"
             THEN SqueezeBlank(Tail(lines),
                               IF previous_line_was_empty THEN out ELSE Append(out, l),
                               TRUE)
             ELSE SqueezeBlank(Tail(lines), Append(out, l), FALSE)

\* (is_valid, code): the formatted code when ast.parse accepts the text
validate_python_code(code) ==
    IF is_valid_python(code)
    THEN [ok |-> TRUE, code |-> JoinLines(SqueezeBlank(SplitLines(code), << >>, FALSE))]
    ELSE [ok |-> FALSE, code |-> code]

\* the post-processing of generate_playwright_script on the content of the
\* response: clean, fix empty blocks, imports, placeholder asserts, validate
generate_playwright_script(raw_script_content) ==
    validate_python_code(
        remove_invalid_asserts(
            ensure_imports_and_structure(
                fix_empty_blocks(
                    gen_clean_code_block(raw_script_content)))))

(***************************************************************************)
(* clean_code_block of auto_heal_trigger.py: the lines inside fences, a    *)
(* fence line toggling inside / outside; the text as it is when it has no  *)
(* fence line.                                                             *)
(***************************************************************************)
RECURSIVE InsideFences(_, _, _)
InsideFences(lines, in_code_block, code_lines) ==
    IF lines = << >> THEN code_lines
    ELSE IF IsFence(Head(lines))
         THEN InsideFences(Tail(lines), ~in_code_block, code_lines)
    ELSE InsideFences(Tail(lines), in_code_block,
                      IF in_code_block THEN Append(code_lines, Head(lines))
                      ELSE code_lines)

trigger_clean_code_block(code_str) ==
    LET lines == SplitLines(code_str)
    IN  IF \E i \in 1..Len(lines) : IsFence(lines[i])
        THEN JoinLines(InsideFences(lines, FALSE, << >>))
        ELSE code_str

(***************************************************************************)
(* The case store testcases.json and the correlator.                       *)
(***************************************************************************)
Cases(n) == [i \in 1..n |-> [case |-> i]]

StoreFile(n) == [exists |-> TRUE, cases |-> Cases(n)]

None == [found |-> FALSE]

\* a testcases.json that holds a JSON object, and one that holds no JSON
StoreObject == [exists |-> TRUE, object |-> TRUE]
StoreCorrupt == [exists |-> TRUE, corrupt |-> TRUE]

\* json.load succeeded and isinstance(testcases, list)
IsList(testcases_file) == "cases" \in DOMAIN testcases_file

\* re.search(r"test_playwright_(\d+)\.py(?:\.healed)?$", base_script_name):
\* a name is [s, suffix]; s is the number after "test_playwright_", negative
\* when no digits stand there; suffix ".healed" is ".py.healed"
NameMatches(script_name) ==
    script_name.s >= 0 /\ script_name.suffix \in {".py", ".healed"}

\* variant: the index is used as Python indexes a list, negative from the end
load_testcase_Wraparound(script_name, testcases_file) ==
    LET testcase_index == script_name.s - 1
        n == Len(testcases_file.cases)
    IN  IF ~NameMatches(script_name) THEN None
        ELSE IF ~testcases_file.exists THEN None
        ELSE IF ~IsList(testcases_file) THEN None
        ELSE IF 0 <= testcase_index /\ testcase_index < n
             THEN [found |-> TRUE, case |-> testcases_file.cases[testcase_index + 1]]
        ELSE IF -n <= testcase_index /\ testcase_index < 0
             THEN [found |-> TRUE, case |-> testcases_file.cases[n + testcase_index + 1]]
        ELSE None

\* variant: the ordinal is taken for the 0-based index
load_testcase_OffByOne(script_name, testcases_file) ==
    LET testcase_index == script_name.s
    IN  IF ~NameMatches(script_name) THEN None
        ELSE IF ~testcases_file.exists THEN None
        ELSE IF ~IsList(testcases_file) THEN None
        ELSE IF 0 <= testcase_index /\ testcase_index < Len(testcases_file.cases)
             THEN [found |-> TRUE, case |-> testcases_file.cases[testcase_index + 1]]
        ELSE None

\* None when the name does not match, the store is missing, is no list or
\* cannot be read, or the index (the ordinal minus one) is out of range
load_testcase_by_script_name(script_name, testcases_file) ==
    LET testcase_index == script_name.s - 1
    IN  IF ~NameMatches(script_name) THEN None
        ELSE IF ~testcases_file.exists THEN None
        ELSE IF ~IsList(testcases_file) THEN None
        ELSE IF 0 <= testcase_index /\ testcase_index < Len(testcases_file.cases)
             THEN [found |-> TRUE, case |-> testcases_file.cases[testcase_index + 1]]
        ELSE None

(***************************************************************************)
(* The repair request.  The prompt is the sequence of the segments of the  *)
(* f-string of heal_script: fixed text, and the values it interpolates.    *)
(***************************************************************************)
Lit(text) == [tag |-> "text", v |-> [lit |-> text]]
Val(tag, v) == [tag |-> tag, v |-> v]

\* json.dumps(testcase, indent=2, ensure_ascii=False)
JsonDumps(testcase) == [json |-> testcase]

HealPrompt(original_script_path, testcase, original_code, error_info) ==
    << Lit("script failed; path:"),
       Val("original_script_path", original_script_path),
       Lit("test case (JSON):"),
       Val("testcase", JsonDumps(testcase)),
       Lit("script code:"),
       Val("original_code", original_code),
       Lit("the complete error information is as follows:"),
       Lit("fix the script; return only the code in a code block") >>

\* what requests.post and the decoding of its response come to
FailureKinds == {"timeout", "http_error", "bad_json", "no_choices", "empty_content"}

Failure(kind) == [kind |-> kind, text |-> << >>]
Content(text) == [kind |-> "content", text |-> text]

\* call_deepseek_api: None without a key and for every failure of the call,
\* the content of the first choice otherwise
call_deepseek_api(key, response) ==
    IF ~key THEN [ok |-> FALSE, text |-> << >>]
    ELSE IF response.kind \in FailureKinds THEN [ok |-> FALSE, text |-> << >>]
    ELSE [ok |-> TRUE, text |-> response.text]

\* the post-processing of heal_script
HealPostProcess(healed_code_raw) ==
    fix_empty_blocks_with_pass(
        add_wait_before_actions(
            ensure_imports(
                clean_code_block(healed_code_raw))))

(***************************************************************************)
(* What the collaborators can hand back.                                   *)
(***************************************************************************)
\* contents of a completion: a fenced script, a script whose handler has no
\* body, prose around a fenced header without body, an unclosed fence
RawFenced == << L(0, "fence_py"), L(0, "def"), L(4, "click"), L(0, "fence") >>
RawEmptyExcept == << L(0, "def"), L(4, "try"), L(8, "stmt"), L(4, "except") >>
RawProse == << L(0, "prose"), L(0, "fence_py"), L(0, "def"), L(0, "fence") >>
RawUnclosed == << L(0, "fence_py"), L(0, "def"), L(4, "pass") >>

RawResponses == {RawEmptyExcept, RawProse, RawUnclosed}

ApiResponses == {Failure(k) : k \in FailureKinds} \cup {Content(t) : t \in RawResponses}

\* the output of pytest
RECURSIVE Separated(_)
Separated(n) ==
    IF n = 0 THEN << >>
    ELSE Separated(n - 1) \o << RLine("FAILED", n, FALSE), BlankLine >>

Adjacent == [i \in 1..NumScripts |-> RLine("FAILED", i, FALSE)] \o << SepLine >>

\* every script reported, one block each
ReportSeparated == Report(Separated(NumScripts), TRUE)
\* the short test summary: one marker line per script, then the separator
ReportAdjacent == Report(Adjacent, TRUE)
ReportLast == Report(<< RLine("FAILED", NumScripts, FALSE), TextLine, SepLine >>, TRUE)
\* a marker as the last line of an output that does not end with a line break
ReportCut == Report(<< TextLine, RLine("FAILED", 1, FALSE) >>, FALSE)
\* a run without failure
ReportPass == Report(<< TextLine, SepLine >>, TRUE)
\* a run of test_playwright_<s>.py.healed that fails, or collects no test
ReportHealedFailed(s) == Report(<< RLine("FAILED", s, TRUE), SepLine >>, TRUE)
ReportNoTests == Report(<< TextLine >>, TRUE)
\* the message written when pytest cannot be started
ReportError == Report(<< TextLine >>, FALSE)

TestReports == {ReportSeparated, ReportAdjacent, ReportLast, ReportCut}
HealedReports(s) == {ReportHealedFailed(s), ReportNoTests}

\* the case store that the run finds
Stores == {NoFile, StoreFile(NumScripts - 1), StoreFile(NumScripts)}

\* a script file: its text and the pipeline run that generated it
ScriptFile(text, gen) == [exists |-> TRUE, text |-> text, gen |-> gen]

Attempts == 0..(max_heal_attempts_per_script - 1)

(***************************************************************************)
(* State.                                                                  *)
(***************************************************************************)
VARIABLES
    pc,                 \* pipeline step: test, idle, scan, repair, verify, done, stopped
    run,                \* pipeline runs started on the script directory
    exit_code,          \* exit status of auto_heal.py, -1 while it has none
    heal_attempt,       \* loop variable of the attempt loop
    failed_tests_info,  \* mapping of the last scan, in insertion order
    pos,                \* next entry of failed_scripts to repair
    healed_scripts,     \* healed paths of this attempt
    vpos,               \* next entry of healed_files to run
    attempt,            \* retry counter of run_healed_tests
    success,            \* result flag of run_healed_tests
    log,                \* pytest_errors.log
    live,               \* playwright_scripts/test_playwright_<s>.py
    healed,             \* ...test_playwright_<s>.py.healed
    backup,             \* ...test_playwright_<s>.py.failed_backup_<n>
    store,              \* testcases.json
    api_key,            \* DEEPSEEK_API_KEY is set
    request,            \* the request posted by the repair pass just taken
    outcome,            \* what the repair pass just taken came to
    passed,             \* healed scripts whose run exited 0 in this attempt
    calls,              \* completion and runner calls of this attempt
    scans,              \* scans of this run of auto_heal.py
    input,              \* argument of a function called on its own
    output              \* what the call returned

vars == << pc, run, exit_code, heal_attempt, failed_tests_info, pos, healed_scripts,
           vpos, attempt, success, log, live, healed, backup, store, api_key,
           request, outcome, passed, calls, scans, input, output >>

files == << log, live, healed, backup, store >>
loop == << heal_attempt, failed_tests_info, pos, healed_scripts, vpos, attempt, success >>
history == << request, outcome, passed, calls, scans >>

NoRequest == [sent |-> FALSE]
NoOutcome == [s |-> 0, what |-> "none"]
NoCalls == [api |-> 0, runner |-> 0]

\* no function is called on its own in a run of the pipeline
pure == << input, output >>
NoCall == [of |-> "none"]

\* the script directory after script_generator.py has run once
Init ==
    /\ pc = "test"
    /\ run = 1
    /\ exit_code = -1
    /\ heal_attempt = 0
    /\ failed_tests_info = << >>
    /\ pos = 1
    /\ healed_scripts = << >>
    /\ vpos = 1
    /\ attempt = 0
    /\ success = TRUE
    /\ log = NoFile
    /\ store \in Stores
    /\ live = [s \in Scripts |->
                 ScriptFile(generate_playwright_script(RawFenced).code, 1)]
    /\ healed = [s \in Scripts |-> NoFile]
    /\ backup = [s \in Scripts |-> [n \in Attempts |-> NoFile]]
    /\ api_key \in BOOLEAN
    /\ request = NoRequest
    /\ outcome = NoOutcome
    /\ passed = {}
    /\ calls = NoCalls
    /\ scans = 0
    /\ input = NoCall
    /\ output = NoCall

(***************************************************************************)
(* run_tests.py: pytest over the generated scripts.  A failing run writes  *)
(* its output to the report, a passing run removes the report.             *)
(***************************************************************************)
RunTests ==
    /\ pc = "test"
    /\ \/ log' = NoFile
       \/ \E r \in TestReports : log' = r
       \/ log' = ReportError
    /\ pc' = "idle"
    /\ UNCHANGED << run, exit_code, live, healed, backup, store, api_key >>
    /\ UNCHANGED << loop, history >>
    /\ UNCHANGED pure

(***************************************************************************)
(* auto_heal.py, __main__.                                                 *)
(***************************************************************************)
Exit(code) == pc' = "done" /\ exit_code' = code

\* before the loop: without a report there is nothing to heal
StartHeal ==
    /\ pc = "idle"
    /\ IF ~log.exists THEN Exit(0) ELSE pc' = "scan" /\ exit_code' = -1
    /\ heal_attempt' = 0
    /\ UNCHANGED << run, failed_tests_info, pos, healed_scripts, vpos, attempt, success >>
    /\ UNCHANGED << files, api_key, history >>
    /\ UNCHANGED pure

\* variant: the empty mapping ends the run only on the first attempt
Scan_FirstOnly ==
    /\ pc = "scan"
    /\ failed_tests_info' = get_failed_tests_from_log(log)
    /\ IF failed_tests_info' = << >> /\ heal_attempt = 0
       THEN Exit(0) ELSE pc' = "repair" /\ exit_code' = -1
    /\ pos' = 1
    /\ healed_scripts' = << >>
    /\ scans' = scans + 1
    /\ calls' = NoCalls
    /\ passed' = {}
    /\ request' = NoRequest
    /\ outcome' = NoOutcome
    /\ UNCHANGED << run, heal_attempt, vpos, attempt, success, files, api_key >>
    /\ UNCHANGED pure

\* top of the attempt loop: read the failing scripts from the report
Scan ==
    /\ pc = "scan"
    /\ failed_tests_info' = get_failed_tests_from_log(log)
    /\ IF failed_tests_info' = << >> THEN Exit(0) ELSE pc' = "repair" /\ exit_code' = -1
    /\ pos' = 1
    /\ healed_scripts' = << >>
    /\ scans' = scans + 1
    /\ calls' = NoCalls
    /\ passed' = {}
    /\ request' = NoRequest
    /\ outcome' = NoOutcome
    /\ UNCHANGED << run, heal_attempt, vpos, attempt, success, files, api_key >>
    /\ UNCHANGED pure

\* variant: a pass that heals nothing leaves an empty healed file behind
Skip_Writes(s, what) ==
    /\ outcome' = [s |-> s, what |-> what]
    /\ healed' = [healed EXCEPT ![s] = TextFile(<< >>)]
    /\ UNCHANGED << healed_scripts, log, live, backup, store >>

\* one pass of "for script_path in failed_scripts" that heals nothing
Skip(s, what) ==
    /\ outcome' = [s |-> s, what |-> what]
    /\ UNCHANGED << healed_scripts, files >>

\* os.rename onto a path that exists: replaces the file (POSIX), or raises
\* FileExistsError (Windows); onto a free path it moves the file
RenameOutcomes(target) == IF target.exists THEN BOOLEAN ELSE {TRUE}

\* variant: a request that timed out is posted a second time
HealScript_PostsAgain(s, testcase, error_info) ==
    \E read_ok \in BOOLEAN, response \in ApiResponses,
       write_ok \in BOOLEAN, rename_ok \in RenameOutcomes(backup[s][heal_attempt]) :
        LET full_script_path == [s |-> s, suffix |-> ".py"]
            prompt == HealPrompt(full_script_path, testcase, live[s], error_info)
            healed_code_raw == call_deepseek_api(api_key, response)
            healed_code == HealPostProcess(healed_code_raw.text)
            posted == read_ok /\ api_key
        IN  /\ request' = IF posted
                          THEN [sent |-> TRUE, s |-> s, prompt |-> prompt,
                                error_info |-> error_info]
                          ELSE NoRequest
            /\ calls' = IF posted
                        THEN [calls EXCEPT !.api = @ + (IF response = Failure("timeout") THEN 2 ELSE 1)]
                        ELSE calls
            /\ IF ~read_ok THEN Skip(s, "read_error")
               ELSE IF ~healed_code_raw.ok
                    THEN Skip(s, IF api_key THEN response.kind ELSE "no_key")
               ELSE IF ~is_valid_python(healed_code) THEN Skip(s, "invalid")
               ELSE IF ~write_ok THEN Skip(s, "write_error")
               ELSE /\ healed' = [healed EXCEPT ![s] = TextFile(healed_code)]
                    /\ healed_scripts' = Append(healed_scripts, s)
                    /\ IF rename_ok
                       THEN /\ backup' = [backup EXCEPT ![s][heal_attempt] = live[s]]
                            /\ live' = [live EXCEPT ![s] = NoFile]
                            /\ outcome' = [s |-> s, what |-> "healed"]
                       ELSE /\ UNCHANGED << backup, live >>
                            /\ outcome' = [s |-> s, what |-> "healed_no_backup"]
                    /\ UNCHANGED << log, store >>

\* variant: the original is moved to its backup path before the candidate
\* is validated and written
HealScript_MovesFirst(s, testcase, error_info) ==
    \E read_ok \in BOOLEAN, response \in ApiResponses,
       write_ok \in BOOLEAN, rename_ok \in RenameOutcomes(backup[s][heal_attempt]) :
        LET full_script_path == [s |-> s, suffix |-> ".py"]
            prompt == HealPrompt(full_script_path, testcase, live[s], error_info)
            healed_code_raw == call_deepseek_api(api_key, response)
            healed_code == HealPostProcess(healed_code_raw.text)
            posted == read_ok /\ api_key
        IN  /\ request' = IF posted
                          THEN [sent |-> TRUE, s |-> s, prompt |-> prompt,
                                error_info |-> error_info]
                          ELSE NoRequest
            /\ calls' = IF posted THEN [calls EXCEPT !.api = @ + 1] ELSE calls
            /\ IF ~read_ok THEN Skip(s, "read_error")
               ELSE IF ~healed_code_raw.ok
                    THEN Skip(s, IF api_key THEN response.kind ELSE "no_key")
               ELSE IF ~is_valid_python(healed_code)
                    THEN /\ outcome' = [s |-> s, what |-> "invalid"]
                         /\ backup' = [backup EXCEPT ![s][heal_attempt] = live[s]]
                         /\ live' = [live EXCEPT ![s] = NoFile]
                         /\ UNCHANGED << healed_scripts, log, healed, store >>
               ELSE IF ~write_ok THEN Skip(s, "write_error")
               ELSE /\ healed' = [healed EXCEPT ![s] = TextFile(healed_code)]
                    /\ healed_scripts' = Append(healed_scripts, s)
                    /\ IF rename_ok
                       THEN /\ backup' = [backup EXCEPT ![s][heal_attempt] = live[s]]
                            /\ live' = [live EXCEPT ![s] = NoFile]
                            /\ outcome' = [s |-> s, what |-> "healed"]
                       ELSE /\ UNCHANGED << backup, live >>
                            /\ outcome' = [s |-> s, what |-> "healed_no_backup"]
                    /\ UNCHANGED << log, store >>

\* heal_script and what __main__ does with its result
HealScript(s, testcase, error_info) ==
    \E read_ok \in BOOLEAN, response \in ApiResponses,
       write_ok \in BOOLEAN, rename_ok \in RenameOutcomes(backup[s][heal_attempt]) :
        LET full_script_path == [s |-> s, suffix |-> ".py"]
            prompt == HealPrompt(full_script_path, testcase, live[s], error_info)
            healed_code_raw == call_deepseek_api(api_key, response)
            healed_code == HealPostProcess(healed_code_raw.text)
            posted == read_ok /\ api_key
        IN  /\ request' = IF posted
                          THEN [sent |-> TRUE, s |-> s, prompt |-> prompt,
                                error_info |-> error_info]
                          ELSE NoRequest
            /\ calls' = IF posted THEN [calls EXCEPT !.api = @ + 1] ELSE calls
            /\ IF ~read_ok THEN Skip(s, "read_error")
               ELSE IF ~healed_code_raw.ok
                    THEN Skip(s, IF api_key THEN response.kind ELSE "no_key")
               ELSE IF ~is_valid_python(healed_code) THEN Skip(s, "invalid")
               ELSE IF ~write_ok THEN Skip(s, "write_error")
               ELSE /\ healed' = [healed EXCEPT ![s] = TextFile(healed_code)]
                    /\ healed_scripts' = Append(healed_scripts, s)
                    /\ IF rename_ok
                       THEN /\ backup' = [backup EXCEPT ![s][heal_attempt] = live[s]]
                            /\ live' = [live EXCEPT ![s] = NoFile]
                            /\ outcome' = [s |-> s, what |-> "healed"]
                       ELSE /\ UNCHANGED << backup, live >>
                            /\ outcome' = [s |-> s, what |-> "healed_no_backup"]
                    /\ UNCHANGED << log, store >>

\* variant: a script that is not healed ends the loop over failed_scripts
RepairOne_AbortsBatch ==
    /\ pc = "repair"
    /\ pos <= Len(failed_tests_info)
    /\ LET script_path == failed_tests_info[pos].path
           error_info == failed_tests_info[pos].detail
           s == script_path.s
           testcase == load_testcase_by_script_name(script_path, store)
       IN  /\ IF ~live[s].exists
              THEN Skip(s, "missing") /\ request' = NoRequest /\ UNCHANGED calls
              ELSE IF ~testcase.found
                   THEN Skip(s, "no_case") /\ request' = NoRequest /\ UNCHANGED calls
              ELSE HealScript(s, testcase.case, error_info)
           /\ pos' = IF outcome'.what \in {"healed", "healed_no_backup"}
                     THEN pos + 1 ELSE Len(failed_tests_info) + 1
    /\ UNCHANGED << pc, run, exit_code, heal_attempt, failed_tests_info, vpos, attempt,
                    success, api_key, passed, scans >>
    /\ UNCHANGED pure

\* one pass of the loop over failed_scripts
RepairOne ==
    /\ pc = "repair"
    /\ pos <= Len(failed_tests_info)
    /\ LET script_path == failed_tests_info[pos].path
           error_info == failed_tests_info[pos].detail
           s == script_path.s
           testcase == load_testcase_by_script_name(script_path, store)
       IN  IF ~live[s].exists
           THEN Skip(s, "missing") /\ request' = NoRequest /\ UNCHANGED calls
           ELSE IF ~testcase.found
                THEN Skip(s, "no_case") /\ request' = NoRequest /\ UNCHANGED calls
           ELSE HealScript(s, testcase.case, error_info)
    /\ pos' = pos + 1
    /\ UNCHANGED << pc, run, exit_code, heal_attempt, failed_tests_info, vpos, attempt,
                    success, api_key, passed, scans >>
    /\ UNCHANGED pure

\* "continue" of the attempt loop
NextAttempt == pc' = "scan" /\ heal_attempt' = heal_attempt + 1 /\ exit_code' = -1

\* variant: an attempt that heals nothing ends the run at once
EndRepair_GiveUp ==
    /\ pc = "repair"
    /\ pos > Len(failed_tests_info)
    /\ IF healed_scripts = << >>
       THEN Exit(1) /\ UNCHANGED heal_attempt
       ELSE pc' = "verify" /\ exit_code' = -1 /\ UNCHANGED heal_attempt
    /\ vpos' = 1
    /\ attempt' = 0
    /\ success' = TRUE
    /\ request' = NoRequest
    /\ outcome' = NoOutcome
    /\ UNCHANGED << run, failed_tests_info, pos, healed_scripts, files, api_key,
                    passed, calls, scans >>
    /\ UNCHANGED pure

\* variant: the verification is started with nothing to verify
EndRepair_VerifiesNothing ==
    /\ pc = "repair"
    /\ pos > Len(failed_tests_info)
    /\ pc' = "verify" /\ exit_code' = -1 /\ UNCHANGED heal_attempt
    /\ vpos' = 1
    /\ attempt' = 0
    /\ success' = TRUE
    /\ request' = NoRequest
    /\ outcome' = NoOutcome
    /\ UNCHANGED << run, failed_tests_info, pos, healed_scripts, files, api_key,
                    passed, calls, scans >>
    /\ UNCHANGED pure

\* after the loop: nothing healed, or on to the verification
EndRepair ==
    /\ pc = "repair"
    /\ pos > Len(failed_tests_info)
    /\ IF healed_scripts = << >>
       THEN IF heal_attempt < max_heal_attempts_per_script - 1
               /\ failed_tests_info # << >>
            THEN NextAttempt
            ELSE Exit(1) /\ UNCHANGED heal_attempt
       ELSE pc' = "verify" /\ exit_code' = -1 /\ UNCHANGED heal_attempt
    /\ vpos' = 1
    /\ attempt' = 0
    /\ success' = TRUE
    /\ request' = NoRequest
    /\ outcome' = NoOutcome
    /\ UNCHANGED << run, failed_tests_info, pos, healed_scripts, files, api_key,
                    passed, calls, scans >>
    /\ UNCHANGED pure

\* run_healed_tests: one pass of the retry loop for healed_files[vpos], or
\* the skip of a healed file that does not exist
NextFile == vpos' = vpos + 1 /\ attempt' = 0

\* variant: the last failed invocation of a file leaves the verdict alone
RunOne_ForgetsFailure ==
    /\ pc = "verify"
    /\ vpos <= Len(healed_scripts)
    /\ LET s == healed_scripts[vpos]
       IN  IF ~healed[s].exists
           THEN /\ success' = FALSE
                /\ NextFile
                /\ UNCHANGED << log, passed, calls >>
           ELSE /\ calls' = [calls EXCEPT !.runner = @ + 1]
                /\ \/ \* returncode 0
                      /\ log' = ReportPass
                      /\ passed' = passed \cup {s}
                      /\ NextFile
                      /\ UNCHANGED success
                   \/ \* returncode # 0
                      /\ \E r \in HealedReports(s) : log' = r
                      /\ passed' = passed \ {s}
                      /\ IF attempt < max_retries
                         THEN attempt' = attempt + 1 /\ UNCHANGED << vpos, success >>
                         ELSE UNCHANGED success /\ NextFile
                   \/ \* FileNotFoundError, or another exception
                      /\ log' = ReportError
                      /\ passed' = passed \ {s}
                      /\ success' = FALSE
                      /\ NextFile
    /\ UNCHANGED << pc, run, exit_code, heal_attempt, failed_tests_info, pos,
                    healed_scripts, live, healed, backup, store, api_key,
                    request, outcome, scans >>
    /\ UNCHANGED pure


RunOne ==
    /\ pc = "verify"
    /\ vpos <= Len(healed_scripts)
    /\ LET s == healed_scripts[vpos]
       IN  IF ~healed[s].exists
           THEN /\ success' = FALSE
                /\ NextFile
                /\ UNCHANGED << log, passed, calls >>
           ELSE /\ calls' = [calls EXCEPT !.runner = @ + 1]
                /\ \/ \* returncode 0
                      /\ log' = ReportPass
                      /\ passed' = passed \cup {s}
                      /\ NextFile
                      /\ UNCHANGED success
                   \/ \* returncode # 0
                      /\ \E r \in HealedReports(s) : log' = r
                      /\ passed' = passed \ {s}
                      /\ IF attempt < max_retries
                         THEN attempt' = attempt + 1 /\ UNCHANGED << vpos, success >>
                         ELSE success' = FALSE /\ NextFile
                   \/ \* FileNotFoundError, or another exception
                      /\ log' = ReportError
                      /\ passed' = passed \ {s}
                      /\ success' = FALSE
                      /\ NextFile
    /\ UNCHANGED << pc, run, exit_code, heal_attempt, failed_tests_info, pos,
                    healed_scripts, live, healed, backup, store, api_key,
                    request, outcome, scans >>
    /\ UNCHANGED pure

\* variant: one attempt more than max_heal_attempts_per_script
EndVerify_OneMore ==
    /\ pc = "verify"
    /\ vpos > Len(healed_scripts)
    /\ IF success THEN Exit(0) /\ UNCHANGED heal_attempt
       ELSE IF heal_attempt < max_heal_attempts_per_script THEN NextAttempt
       ELSE Exit(1) /\ UNCHANGED heal_attempt
    /\ UNCHANGED << run, failed_tests_info, pos, healed_scripts, vpos, attempt, success,
                    files, api_key, history >>
    /\ UNCHANGED pure

\* variant: a failed verification ends the run without another attempt
EndVerify_NoRetry ==
    /\ pc = "verify"
    /\ vpos > Len(healed_scripts)
    /\ IF success THEN Exit(0) ELSE Exit(1)
    /\ UNCHANGED << run, failed_tests_info, pos, healed_scripts, vpos, attempt, success,
                    files, api_key, history, heal_attempt >>
    /\ UNCHANGED pure

\* the verdict on run_success
EndVerify ==
    /\ pc = "verify"
    /\ vpos > Len(healed_scripts)
    /\ IF success THEN Exit(0) /\ UNCHANGED heal_attempt
       ELSE IF heal_attempt < max_heal_attempts_per_script - 1 THEN NextAttempt
       ELSE Exit(1) /\ UNCHANGED heal_attempt
    /\ UNCHANGED << run, failed_tests_info, pos, healed_scripts, vpos, attempt, success,
                    files, api_key, history >>
    /\ UNCHANGED pure

(***************************************************************************)
(* script_generator.py, __main__: the old .py files of the directory are   *)
(* removed (healed files and backups do not end in .py), then one script   *)
(* per stored case is written when its generation passes the validation.   *)
(***************************************************************************)
GenResponses == {RawFenced, RawProse}

Generated == {r \in GenResponses : generate_playwright_script(r).ok}

GenerateScripts ==
    /\ pc = "done"
    /\ run < MaxRuns
    /\ run' = run + 1
    /\ IF ~store.exists
       THEN /\ live' = [s \in Scripts |-> NoFile]
            /\ pc' = "stopped"
       ELSE \E written \in [1..Len(store.cases) -> Generated \cup {<< >>}] :
                /\ live' = [s \in Scripts |->
                              IF s \in DOMAIN written /\ written[s] # << >>
                              THEN ScriptFile(generate_playwright_script(written[s]).code, run')
                              ELSE NoFile]
                /\ pc' = IF \A i \in DOMAIN written : written[i] = << >>
                         THEN "stopped" ELSE "test"
    /\ exit_code' = -1
    /\ heal_attempt' = 0
    /\ failed_tests_info' = << >>
    /\ pos' = 1
    /\ healed_scripts' = << >>
    /\ vpos' = 1
    /\ attempt' = 0
    /\ success' = TRUE
    /\ request' = NoRequest
    /\ outcome' = NoOutcome
    /\ passed' = {}
    /\ calls' = NoCalls
    /\ scans' = 0
    /\ UNCHANGED << log, healed, backup, store, api_key >>
    /\ UNCHANGED pure

(***************************************************************************)
(* auto_heal_trigger.py, trigger_auto_heal: the content of the first       *)
(* choice, fences removed, is written to <script>.healed.                  *)
(***************************************************************************)
TriggerAutoHeal ==
    /\ pc = "done"
    /\ exit_code = 1
    /\ \E s \in Scripts, healed_script \in RawResponses :
        /\ live[s].exists
        /\ healed' = [healed EXCEPT ![s] = TextFile(trigger_clean_code_block(healed_script))]
    /\ pc' = "stopped"
    /\ UNCHANGED << run, exit_code, log, live, backup, store, api_key >>
    /\ UNCHANGED << loop, history >>
    /\ UNCHANGED pure

Next ==
    \/ RunTests
    \/ StartHeal
    \/ Scan
    \/ RepairOne
    \/ EndRepair
    \/ RunOne
    \/ EndVerify
    \/ GenerateScripts
    \/ TriggerAutoHeal

Spec == Init /\ [][Next]_vars

\* the steps of the process auto_heal.py
Orchestrator == StartHeal \/ Scan \/ RepairOne \/ EndRepair \/ RunOne \/ EndVerify

\* one run of run_tests.py and auto_heal.py on the generated scripts; the
\* process auto_heal.py is not held up between two of its steps
FairSpec == Init /\ [][RunTests \/ Orchestrator]_vars /\ WF_vars(Orchestrator)

(***************************************************************************)
(* The failure extractor on its own: get_failed_tests_from_log applied to  *)
(* every report text of at most MaxReportLen lines.                        *)
(***************************************************************************)
ReportLines ==
    {RLine(k, s, h) : k \in MarkerKinds, s \in Scripts, h \in BOOLEAN}
        \cup {SepLine, BlankLine, TextLine}

ReportTexts ==
    {Report(lines, nl) :
        lines \in UNION {[1..n -> ReportLines] : n \in 0..MaxReportLen},
        nl \in BOOLEAN}

InitExtract ==
    /\ pc = "scan"
    /\ run = 1
    /\ exit_code = -1
    /\ heal_attempt = 0
    /\ failed_tests_info = << >>
    /\ pos = 1
    /\ healed_scripts = << >>
    /\ vpos = 1
    /\ attempt = 0
    /\ success = TRUE
    /\ log \in ReportTexts
    /\ store = StoreFile(NumScripts)
    /\ live = [s \in Scripts |->
                 ScriptFile(generate_playwright_script(RawFenced).code, 1)]
    /\ healed = [s \in Scripts |-> NoFile]
    /\ backup = [s \in Scripts |-> [n \in Attempts |-> NoFile]]
    /\ api_key = TRUE
    /\ request = NoRequest
    /\ outcome = NoOutcome
    /\ passed = {}
    /\ calls = NoCalls
    /\ scans = 0
    /\ input = NoCall
    /\ output = NoCall

SpecExtract == InitExtract /\ [][Scan]_vars

(***************************************************************************)
(* Properties.                                                             *)
(***************************************************************************)
Range(f) == {f[i] : i \in DOMAIN f}

Scanned == {failed_tests_info[i].path.s : i \in 1..Len(failed_tests_info)}

\* C1: auto_heal.py exits with status 0 only if the scan found no failing
\* script, or every script of the scanned mapping was repaired in the
\* attempt and the run of its repaired version exited 0.
C1_ConvergedOnlyWhenAllRepaired ==
    exit_code = 0 =>
        \A s \in Scanned : s \in Range(healed_scripts) /\ s \in passed

\* C2: a run of auto_heal.py scans at most max_heal_attempts_per_script
\* times, its attempt counter never decreases, it ends with exit status 0
\* or 1, and once started it does end.
C2_BoundedTermination ==
    /\ [](scans <= max_heal_attempts_per_script)
    /\ [](pc = "done" => exit_code \in {0, 1})
    /\ [][run' = run => heal_attempt' >= heal_attempt]_vars
    /\ [](pc = "idle" => <>(pc = "done" /\ exit_code \in {0, 1}))

\* a run that ends after the last scan the budget allows, with status 0
C2_Witness ==
    /\ pc = "done"
    /\ exit_code = 0
    /\ scans = max_heal_attempts_per_script
    /\ failed_tests_info # << >>

\* C3, as stated: when the scans of a run all show a failing script, the run
\* does not end with status 0.  (A run scans again only after a scan that
\* showed a failing script, so the last scan stands for all of them.)
C3_NeverConverged ==
    pc = "done" /\ scans > 0 /\ failed_tests_info # << >> => exit_code # 0

\* C3, amended: when the scans of a run all show a failing script and no
\* verification pass of the run succeeds, the run ends with status 1 after
\* exactly max_heal_attempts_per_script scans.
C3_ExhaustedWithoutVerifiedRepair ==
    pc = "done" /\ scans > 0 /\ failed_tests_info # << >>
        /\ ~(healed_scripts # << >> /\ success)
    => exit_code = 1 /\ scans = max_heal_attempts_per_script

\* the budget spent on attempts whose repairs failed their verification
C3_Witness ==
    /\ pc = "done"
    /\ exit_code = 1
    /\ scans = max_heal_attempts_per_script
    /\ healed_scripts # << >>
    /\ ~success

\* C4: every healed script and every generated script on disk holds text
\* that passes the syntax validation.
C4_PersistedTextIsValid ==
    \A s \in Scripts :
        /\ healed[s].exists => is_valid_python(healed[s].text)
        /\ live[s].exists => is_valid_python(live[s].text)

\* C5: a step never changes or removes a backup file that exists.
C5_BackupsKept ==
    [][\A s \in Scripts, n \in Attempts :
          backup[s][n].exists => backup'[s][n] = backup[s][n]]_vars

\* C6: a scan that finds no failing script, on any attempt, ends the run
\* with status 0 in that step: no completion call, no runner call, and the
\* scripts, healed files, backups and the report are as they were.
C6_EmptyScanConverges ==
    [][pc = "scan" /\ get_failed_tests_from_log(log) = << >>
       => /\ pc' = "done"
          /\ exit_code' = 0
          /\ calls' = NoCalls
          /\ ~request'.sent
          /\ UNCHANGED << heal_attempt, files >>]_vars

\* the second scan of a run found nothing and ended it
C6_Witness ==
    /\ pc = "done"
    /\ exit_code = 0
    /\ heal_attempt = 1
    /\ scans = 2
    /\ failed_tests_info = << >>

\* C7: exit status 1 is taken only on the last attempt of the budget and
\* only when the latest scan listed a failing script.
C7_ExhaustedOnlyAtMaximum ==
    exit_code = 1 =>
        /\ heal_attempt = max_heal_attempts_per_script - 1
        /\ scans = max_heal_attempts_per_script
        /\ failed_tests_info # << >>

\* the budget spent without a single repair in the last attempt
C7_Witness ==
    /\ pc = "done"
    /\ exit_code = 1
    /\ healed_scripts = << >>
    /\ calls.api > 0

\* C8: the prompt of every repair request holds the text of the original
\* script, the serialized test case and the failure detail of the script.
C8_RequestCarriesFailureDetail ==
    request.sent =>
        /\ \E i \in DOMAIN request.prompt :
              request.prompt[i].tag = "original_code"
        /\ \E i \in DOMAIN request.prompt :
              request.prompt[i].tag = "testcase"
        /\ \E i \in DOMAIN request.prompt :
              request.prompt[i] = Val("error_info", request.error_info)

NoCandidate == FailureKinds \cup {"no_key", "invalid"}

\* C9: a repair pass whose completion call fails, or whose sanitized
\* response is not valid Python, goes on to the next script of the loop and
\* leaves every healed file, script and backup as it was; the script is not
\* among the healed scripts of the attempt.
C9_FailedRepairLeavesFiles ==
    [][pc = "repair" /\ pos' = pos + 1 /\ outcome'.what \in NoCandidate
       => /\ pc' = "repair"
          /\ UNCHANGED << healed, live, backup, healed_scripts >>
          /\ live[outcome'.s].exists]_vars

\* an invalid candidate was dropped: the script is where it was
C9_Witness ==
    /\ pc = "repair"
    /\ outcome.what = "invalid"
    /\ live[outcome.s].exists
    /\ ~healed[outcome.s].exists
    /\ healed_scripts = << >>

\* report lines from marker i up to the next section separator or the end
\* of the text, without the empty lines at both ends
ExpectedEnd(rep, i) ==
    LET n == Len(rep.lines)
        seps == {j \in (i+1)..n : rep.lines[j].k = "SEP"}
    IN  IF seps = {} THEN n + 1 ELSE CHOOSE j \in seps : \A m \in seps : j <= m

StripReport(lines) ==
    LET keep == {i \in 1..Len(lines) : lines[i].k # "BLANK"}
    IN  IF keep = {} THEN << >>
        ELSE SubSeq(lines, CHOOSE i \in keep : \A m \in keep : i <= m,
                           CHOOSE i \in keep : \A m \in keep : i >= m)

ExpectedDetail(rep, i) ==
    StripReport(MarkerRest(rep.lines[i])
                    \o SubSeq(rep.lines, i + 1, ExpectedEnd(rep, i) - 1))

\* C10: after a scan, the path of every marker line of the report that does
\* not name a healed artifact is a key of the mapping, and the detail of the
\* key is the text from a marker of that script up to the next section
\* separator or the end of the report.
C10_EveryMarkerIsKey ==
    scans = 1 /\ log.exists =>
        \A i \in 1..Len(log.lines) :
            IsMarker(log.lines[i]) /\ ~log.lines[i].h =>
                \E k \in 1..Len(failed_tests_info) :
                    /\ failed_tests_info[k].path = [s |-> log.lines[i].s, suffix |-> ".py"]
                    /\ \E j \in 1..Len(log.lines) :
                          /\ IsMarker(log.lines[j])
                          /\ log.lines[j].s = log.lines[i].s
                          /\ failed_tests_info[k].detail = ExpectedDetail(log, j)

\* the marker lines of the report that name test_playwright_<s>.py itself
PlainMarkers(rep, s) ==
    {i \in 1..Len(rep.lines) :
        IsMarker(rep.lines[i]) /\ rep.lines[i].s = s /\ ~rep.lines[i].h}

EntriesOf(s) ==
    {k \in 1..Len(failed_tests_info) :
        failed_tests_info[k].path = [s |-> s, suffix |-> ".py"]}

\* C11: after a scan, a script that the report marks as failing more than
\* once has exactly one entry in the mapping, and the detail of the entry is
\* a block of report text that starts at the first of its markers.
C11_FirstOccurrenceWins ==
    scans = 1 /\ log.exists =>
        \A s \in Scripts :
            LET ms == PlainMarkers(log, s)
                first == CHOOSE i \in ms : \A m \in ms : i <= m
            IN  Cardinality(ms) >= 2 =>
                    /\ Cardinality(EntriesOf(s)) = 1
                    /\ \A k \in EntriesOf(s) :
                          \E e \in (first + 1)..(Len(log.lines) + 1) :
                              failed_tests_info[k].detail = DetailOf(log, first, e)

\* C12: after a scan of a report whose markers all name healed artifacts
\* (paths ending in .healed), the mapping is empty.
C12_HealedMarkersIgnored ==
    scans = 1 /\ log.exists
        /\ (\A i \in 1..Len(log.lines) : IsMarker(log.lines[i]) => log.lines[i].h)
    => failed_tests_info = << >>

(***************************************************************************)
(* The correlator on its own: load_testcase_by_script_name applied to      *)
(* every name test_playwright_<s><suffix> and every case store of at most  *)
(* MaxCases cases.                                                         *)
(***************************************************************************)
ScriptNames ==
    {[s |-> s, suffix |-> x] : s \in (-1)..(MaxCases + 1),
                               x \in {".py", ".healed", ".txt"}}

CaseStores == {NoFile, StoreObject, StoreCorrupt} \cup {StoreFile(n) : n \in 0..MaxCases}

\* the state of the pipeline around a call of a function on its own
Idle ==
    /\ run = 1
    /\ exit_code = -1
    /\ heal_attempt = 0
    /\ failed_tests_info = << >>
    /\ pos = 1
    /\ healed_scripts = << >>
    /\ vpos = 1
    /\ attempt = 0
    /\ success = TRUE
    /\ log = NoFile
    /\ store = NoFile
    /\ live = [s \in Scripts |-> NoFile]
    /\ healed = [s \in Scripts |-> NoFile]
    /\ backup = [s \in Scripts |-> [n \in Attempts |-> NoFile]]
    /\ api_key = FALSE
    /\ request = NoRequest
    /\ outcome = NoOutcome
    /\ passed = {}
    /\ calls = NoCalls
    /\ scans = 0

InitCorrelate ==
    /\ Idle
    /\ pc = "call"
    /\ input \in {[of |-> "load_testcase_by_script_name",
                   script_name |-> n, testcases_file |-> f] :
                     n \in ScriptNames, f \in CaseStores}
    /\ output = NoCall

Correlate ==
    /\ pc = "call"
    /\ input.of = "load_testcase_by_script_name"
    /\ output' = [of |-> input.of,
                  value |-> load_testcase_by_script_name(input.script_name,
                                                         input.testcases_file)]
    /\ pc' = "returned"
    /\ UNCHANGED << run, exit_code, loop, files, api_key, history, input >>

SpecCorrelate == InitCorrelate /\ [][Correlate]_vars

Correlated == pc = "returned" /\ output.of = "load_testcase_by_script_name"

\* the ordinal of the name is one of the positions 1..n of a stored list
InRange(script_name, testcases_file) ==
    /\ testcases_file.exists
    /\ IsList(testcases_file)
    /\ script_name.s >= 1
    /\ script_name.s <= Len(testcases_file.cases)

\* C13: the correlator returns None for a name that does not match the
\* naming convention, for ordinal 0 or an ordinal above the number of stored
\* cases, and when the store is missing, unreadable or not a list.
C13_OutOfRangeIsNotFound ==
    Correlated /\ (~NameMatches(input.script_name)
                   \/ ~InRange(input.script_name, input.testcases_file))
    => output.value = None

\* ordinal 0 against a store that holds cases
C13_Witness ==
    /\ Correlated
    /\ input.script_name = [s |-> 0, suffix |-> ".py"]
    /\ IsList(input.testcases_file)
    /\ Len(input.testcases_file.cases) >= 2
    /\ output.value = None

\* C14: for a name test_playwright_<N>.py or test_playwright_<N>.py.healed
\* with 1 <= N <= number of stored cases the correlator returns the N-th
\* stored case (0-based offset N - 1), the case for which script_generator
\* wrote test_playwright_<N>.py.
C14_OrdinalGivesItsCase ==
    Correlated /\ NameMatches(input.script_name)
               /\ InRange(input.script_name, input.testcases_file)
    => /\ output.value.found
       /\ output.value.case = input.testcases_file.cases[input.script_name.s]
       /\ output.value.case = [case |-> input.script_name.s]

\* ordinal 2 of three cases, in .healed form
C14_Witness ==
    /\ Correlated
    /\ input.script_name = [s |-> 2, suffix |-> ".healed"]
    /\ input.testcases_file = StoreFile(3)
    /\ output.value = [found |-> TRUE, case |-> [case |-> 2]]

(***************************************************************************)
(* The sanitizing functions on their own: each pass and each pipeline is   *)
(* called on a text of at most MaxTextLen lines.  The texts are drawn from *)
(* three groups of lines: responses with fences and docstrings, scripts    *)
(* with imports, and scripts with blocks.                                  *)
(***************************************************************************)
FenceLines ==
    {L(0, "fence"), L(0, "fence_py"), L(0, "doc"), L(0, "stmt"), L(0, "def"),
     L(4, "pass"), L(0, "blank"), L(0, "prose")}

ImportLines ==
    {L(0, "imp_pytest"), L(0, "imp_sync"), L(0, "imp_expect"), L(0, "imp_both"),
     L(0, "imp_re"), L(0, "imp_requests"), L(0, "imp_time"), L(0, "def"),
     L(4, "pass"), L(4, "imp_time"), L(4, "stmt"), L(4, "doc")}

BlockLines ==
    {L(0, "def"), L(0, "if"), L(4, "if"), L(4, "try"), L(4, "except"),
     L(4, "stmt"), L(8, "stmt"), L(8, "pass"), L(4, "assert_false"),
     L(0, "blank"), L(8, "comment"), L(4, "click")}

TextsOver(lines) == UNION {[1..n -> lines] : n \in 0..MaxTextLen}

\* one empty line is the empty text, which << >> stands for
ScriptTexts ==
    (TextsOver(FenceLines) \cup TextsOver(ImportLines) \cup TextsOver(BlockLines))
        \ {<< L(0, "blank") >>}

Passes ==
    {"auto_heal.clean_code_block", "ensure_imports", "add_wait_before_actions",
     "fix_empty_blocks_with_pass", "heal_script",
     "script_generator.clean_code_block", "fix_empty_blocks",
     "ensure_imports_and_structure", "remove_invalid_asserts",
     "generate_playwright_script", "auto_heal_trigger.clean_code_block"}

\* what a pass returns: a text; a pipeline also says whether the text passed
\* its validation
Returned(ok, text) == [ok |-> ok, text |-> text]

ApplyPass(f, text) ==
    CASE f = "auto_heal.clean_code_block" -> Returned(TRUE, clean_code_block(text))
      [] f = "ensure_imports" -> Returned(TRUE, ensure_imports(text))
      [] f = "add_wait_before_actions" -> Returned(TRUE, add_wait_before_actions(text))
      [] f = "fix_empty_blocks_with_pass" -> Returned(TRUE, fix_empty_blocks_with_pass(text))
      [] f = "heal_script" ->
            Returned(is_valid_python(HealPostProcess(text)), HealPostProcess(text))
      [] f = "script_generator.clean_code_block" -> Returned(TRUE, gen_clean_code_block(text))
      [] f = "fix_empty_blocks" -> Returned(TRUE, fix_empty_blocks(text))
      [] f = "ensure_imports_and_structure" ->
            Returned(TRUE, ensure_imports_and_structure(text))
      [] f = "remove_invalid_asserts" -> Returned(TRUE, remove_invalid_asserts(text))
      [] f = "generate_playwright_script" ->
            Returned(generate_playwright_script(text).ok,
                     generate_playwright_script(text).code)
      [] f = "auto_heal_trigger.clean_code_block" ->
            Returned(TRUE, trigger_clean_code_block(text))

InitSanitize ==
    /\ Idle
    /\ pc = "call"
    /\ input \in {[of |-> "sanitize", text |-> t] : t \in ScriptTexts}
    /\ output = NoCall

Sanitize ==
    /\ pc = "call"
    /\ input.of = "sanitize"
    /\ \E f \in Passes : output' = [of |-> f, value |-> ApplyPass(f, input.text)]
    /\ pc' = "returned"
    /\ UNCHANGED << run, exit_code, loop, files, api_key, history, input >>

SpecSanitize == InitSanitize /\ [][Sanitize]_vars

Sanitized(f) == pc = "returned" /\ output.of = f

\* C15: a pass or pipeline applied to its own result returns that result
\* again, for the repair pipeline, the generation pipeline and each of the
\* passes for fences, placeholder assertions, empty blocks and imports.
C15_SanitizeIsIdempotent ==
    \A f \in Passes \ {"add_wait_before_actions"} :
        Sanitized(f) => ApplyPass(f, output.value.text).text = output.value.text

\* the import statements that make the name of a required import available
Provides(k, imp) ==
    CASE imp = "imp_sync"   -> k \in {"imp_sync", "imp_both"}
      [] imp = "imp_expect" -> k \in {"imp_expect", "imp_both"}
      [] OTHER              -> k = imp

Available(text, imp) == Cardinality({i \in 1..Len(text) : Provides(text[i].k, imp)})

\* the required imports of the pass f
RequiredOf(f) ==
    IF f = "ensure_imports" THEN Range(required_imports) ELSE gen_required_imports

\* C16: after import normalization a required import that was missing is
\* there once, and one that was present, as its own statement or in a
\* combined statement, is there as often as before; `import requests` does
\* not stand for `import re`.
C16_RequiredImportsOnce ==
    \A f \in {"ensure_imports", "ensure_imports_and_structure"} :
        Sanitized(f) =>
            \A imp \in RequiredOf(f) :
                Available(output.value.text, imp)
                    = IF Available(input.text, imp) = 0 THEN 1
                      ELSE Available(input.text, imp)

\* conditional, exception, loop and resource-scope headers of the alphabet
ControlFlowKinds == {"if", "try", "except", "finally"}

\* the header lines[i] has no body: no line follows it, or the next line
\* that is not empty is not indented more deeply
HeaderOnly(lines, i) ==
    LET rest == {j \in (i + 1)..Len(lines) : lines[j].k # "blank"}
    IN  rest = {} \/ lines[CHOOSE j \in rest : \A m \in rest : j <= m].ind <= lines[i].ind

\* lines with one pass, one level deeper, directly after every header-only
\* line of the given kinds, and nothing else added
RECURSIVE Completed(_, _, _)
Completed(lines, kinds, i) ==
    IF i > Len(lines) THEN << >>
    ELSE << lines[i] >>
         \o (IF lines[i].k \in kinds /\ HeaderOnly(lines, i)
             THEN << L(lines[i].ind + 4, "pass") >> ELSE << >>)
         \o Completed(lines, kinds, i + 1)

\* C17: empty-block completion inserts exactly one pass, one level deeper
\* and directly after the header, for every control-flow header whose next
\* non-blank line is not more deeply indented or that ends the text, and
\* nothing after the other headers; a def header may be completed or not.
C17_EmptyBlocksCompleted ==
    \A f \in {"fix_empty_blocks_with_pass", "fix_empty_blocks"} :
        Sanitized(f) =>
            output.value.text
                \in {JoinLines(Completed(SplitLines(input.text), kinds, 1)) :
                        kinds \in {ControlFlowKinds, ControlFlowKinds \cup {"def"}}}

\* a response whose function body is only the placeholder
PlaceholderOnly == << L(0, "def"), L(4, "assert_false") >>

HasLine(text, l) == \E i \in 1..Len(text) : text[i] = l

\* C18: a response whose function body is only `assert False` is sanitized,
\* on the generation path and on the repair path, into a script that passes
\* validation, without the placeholder and with a pass as the function body.
C18_PlaceholderBodyBecomesPass ==
    \A f \in {"generate_playwright_script", "heal_script"} :
        Sanitized(f) /\ input.text = PlaceholderOnly =>
            /\ output.value.ok
            /\ ~ \E i \in 1..Len(output.value.text) :
                    output.value.text[i].k = "assert_false"
            /\ HasLine(output.value.text, L(4, "pass"))

FenceStrippers ==
    {"auto_heal.clean_code_block", "script_generator.clean_code_block",
     "auto_heal_trigger.clean_code_block"}

\* the text is a valid script between an opening fence, with or without the
\* language tag, and a closing fence
IsFenced(text) ==
    /\ Len(text) >= 3
    /\ text[1] \in {L(0, "fence"), L(0, "fence_py")}
    /\ text[Len(text)] = L(0, "fence")
    /\ is_valid_python(SubSeq(text, 2, Len(text) - 1))

HasNoFence(text) == \A i \in 1..Len(text) : ~IsFence(text[i])

\* C19: fence stripping returns the script of a fenced valid script, up to
\* white space at its end, and returns a text without a fence trimmed and
\* otherwise unchanged.
C19_FenceRoundTrip ==
    \A f \in FenceStrippers :
        Sanitized(f) =>
            /\ IsFenced(input.text) =>
                  DropTrailingBlank(output.value.text)
                      = DropTrailingBlank(SubSeq(input.text, 2, Len(input.text) - 1))
            /\ HasNoFence(input.text) => output.value.text = Strip(input.text)

\* the kinds the classification of a failure record chooses from
RecordKinds == {"collection-error", "syntax", "assertion", "runtime"}

\* every marker of the script in the report is a collection marker
OnlyCollectionMarkers(rep, s) ==
    \A i \in 1..Len(rep.lines) :
        IsMarker(rep.lines[i]) /\ rep.lines[i].s = s => rep.lines[i].k = "ERRCOLL"

\* C20: after a scan every failure record carries a kind, one of
\* collection-error, syntax, assertion and runtime, and the record of a
\* script that the report only marks with collection markers has the kind
\* collection-error.
C20_RecordsCarryKind ==
    scans = 1 /\ log.exists =>
        \A k \in 1..Len(failed_tests_info) :
            /\ "kind" \in DOMAIN failed_tests_info[k]
            /\ failed_tests_info[k].kind \in RecordKinds
            /\ OnlyCollectionMarkers(log, failed_tests_info[k].path.s)
                  => failed_tests_info[k].kind = "collection-error"

\* the repair loop of the attempt is through and has healed nothing
NothingRepaired ==
    pc = "repair" /\ pos > Len(failed_tests_info) /\ healed_scripts = << >>

\* C21: when the repair loop of an attempt has healed no script, the next
\* step runs no test: it starts the next attempt with the scan, or ends the
\* run with exit code 1 when this was the last attempt.
C21_NothingRepairedSkipsVerify ==
    [][NothingRepaired =>
          /\ calls'.runner = calls.runner
          /\ log' = log
          /\ IF heal_attempt < max_heal_attempts_per_script - 1
             THEN pc' = "scan" /\ heal_attempt' = heal_attempt + 1
             ELSE pc' = "done" /\ exit_code' = 1]_vars

\* the second attempt starts after a first one that healed nothing
C21_Witness ==
    /\ pc = "scan"
    /\ heal_attempt = 1
    /\ failed_tests_info # << >>
    /\ pos > Len(failed_tests_info)
    /\ healed_scripts = << >>
    /\ calls.runner = 0

\* the files of the script s
FilesOf(s) == << live[s], healed[s], backup[s] >>

\* C22: every pass of the loop over the failing scripts of a scan takes the
\* next entry of the mapping, whatever became of the entries before it, and
\* goes on to the entry after it; a pass touches the files of its own script
\* only, and a script that is not healed is not among the healed scripts.
C22_BatchContinues ==
    [][pc = "repair" /\ pos <= Len(failed_tests_info) =>
          LET s == failed_tests_info[pos].path.s
          IN  /\ pc' = "repair"
              /\ pos' = pos + 1
              /\ failed_tests_info' = failed_tests_info
              /\ outcome'.s = s
              /\ \A t \in Scripts \ {s} : FilesOf(t)' = FilesOf(t)
              /\ healed_scripts' =
                    IF outcome'.what \in {"healed", "healed_no_backup"}
                    THEN Append(healed_scripts, s) ELSE healed_scripts]_vars

\* the second script of the scan is healed after the first one was not
C22_Witness ==
    /\ pc = "repair"
    /\ Len(failed_tests_info) >= 2
    /\ pos = 3
    /\ healed_scripts = << failed_tests_info[2].path.s >>
    /\ outcome.what = "healed"

\* C23: within one attempt the test runner is invoked at most once for each
\* repaired script: there are never more runs in an attempt than scripts
\* healed in it.
C23_OneRunPerRepairedScript ==
    pc = "verify" => calls.runner <= Len(healed_scripts)

\* C24: a pass of the repair loop posts at most one request to the
\* completion service, also when the request times out or fails, so an
\* attempt never holds more requests than scripts it has processed.
C24_OneRequestPerScript ==
    pc \in {"repair", "verify"} =>
        /\ calls.api <= pos - 1
        /\ calls.api <= Len(failed_tests_info)

\* the request of the pass just taken timed out, and it is the only one
C24_Witness ==
    /\ pc = "repair"
    /\ pos = 2
    /\ outcome.what = "timeout"
    /\ request.sent
    /\ calls.api = 1

\* the pass just taken met a case store that is missing, or a script file
\* that could not be read or a healed file that could not be written
ResourceError ==
    \/ outcome.what \in {"read_error", "write_error"}
    \/ outcome.what = "no_case" /\ ~store.exists

\* C25: after a resource error the run has ended with a nonzero exit code:
\* no further script is processed and no further attempt is started.
C25_ResourceErrorAborts ==
    ResourceError => pc = "done" /\ exit_code > 0

\* the lines a file may hold before its first statement that is no import
LeadKinds == ImportKinds \cup {"comment", "blank", "doc"}

\* the number of leading lines of the text that are comments, docstrings,
\* empty lines and imports of the file level
Lead(text) ==
    LET other == {i \in 1..Len(text) : text[i].k \notin LeadKinds \/ text[i].ind # 0}
    IN  IF other = {} THEN Len(text)
        ELSE (CHOOSE i \in other : \A m \in other : i <= m) - 1

\* out is the text with lines put in at one place among its leading lines
InsertedAtTop(text, out) ==
    LET n == Len(out) - Len(text)
    IN  /\ n >= 0
        /\ \E k \in 0..Lead(text) :
              /\ SubSeq(out, 1, k) = SubSeq(text, 1, k)
              /\ SubSeq(out, k + n + 1, Len(out)) = SubSeq(text, k + 1, Len(text))

\* C26: import normalization of the repair path puts the missing imports
\* among the leading lines of the script, before its first statement that
\* is no import, and a valid script stays valid.
C26_ImportsInsertedAtTop ==
    Sanitized("ensure_imports") /\ is_valid_python(input.text) =>
        /\ InsertedAtTop(SplitLines(input.text), SplitLines(output.value.text))
        /\ is_valid_python(output.value.text)

\* the report holds a failure marker for the script s or its healed file
ReportsFailure(rep, s) ==
    rep.exists /\ \E i \in 1..Len(rep.lines) : IsMarker(rep.lines[i]) /\ rep.lines[i].s = s

\* C27: when the verification has run several healed scripts, the report
\* holds a failure marker for every one of them whose last run did not
\* exit 0.
C27_ReportCoversWholePass ==
    pc = "verify" /\ vpos > Len(healed_scripts) /\ Len(healed_scripts) >= 2 =>
        \A s \in Range(healed_scripts) \ passed : ReportsFailure(log, s)

\* C28: in the first run on a script directory, a pass of a later attempt
\* over a script of the scan does not skip the script as missing: a script
\* that was repaired before and is reported as failing again is read and
\* repaired again.
C28_FailedRepairIsRepairedAgain ==
    run = 1 /\ pc = "repair" /\ heal_attempt >= 1 => outcome.what # "missing"

\* the script s has its original at the live path, or a healed file and a
\* backup of the original
Recoverable(s) ==
    live[s].exists \/ (healed[s].exists /\ \E n \in Attempts : backup[s][n].exists)

\* a step that takes a script away from its live path has written a valid
\* healed file for it and leaves the original at the backup path of the
\* attempt; the step removes no healed file and no backup
MovesAfterHealing(s) ==
    /\ (live[s].exists /\ ~live'[s].exists) =>
            (/\ healed'[s].exists
             /\ is_valid_python(healed'[s].text)
             /\ backup'[s][heal_attempt] = live[s])
    /\ healed[s].exists => healed'[s].exists
    /\ \A n \in Attempts : backup[s][n].exists => backup'[s][n].exists

\* C29: a step of the orchestrator that takes a script away from its live
\* path has written a valid healed file for it and leaves the original at
\* the backup path of the attempt; no step of the orchestrator removes a
\* healed file or a backup, so a script that has its original at the live
\* path, or both a healed file and a backup, still has one of the two after
\* the step.
C29_OriginalMovedAfterHealedWritten ==
    [][(pc \in {"idle", "scan", "repair", "verify"}) =>
          (\A s \in Scripts : MovesAfterHealing(s) /\ (Recoverable(s) => Recoverable(s)'))]_vars

\* a script is at its backup path, next to its healed file
C29_Witness ==
    /\ pc = "repair"
    /\ run = 1
    /\ outcome.what = "healed"
    /\ ~live[outcome.s].exists
    /\ healed[outcome.s].exists
    /\ backup[outcome.s][heal_attempt].exists
\* the files run_healed_tests has finished with
Finished == {healed_scripts[i] : i \in 1..(vpos - 1)}

\* C30: while run_healed_tests runs, its result is True exactly when every
\* file it has finished with exists and had an invocation that exited 0; a
\* file is invoked at most max_retries + 1 times and never again once it has
\* passed, and after a missing runner command or an exception the file is
\* left with the result False.
C30_RunnerVerdict ==
    pc = "verify" =>
        /\ success <=> (\A s \in Finished : healed[s].exists /\ s \in passed)
        /\ passed \subseteq Finished
        /\ attempt <= max_retries
        /\ calls.runner <= (max_retries + 1) * (vpos - 1) + attempt
        /\ (calls.runner > 0 /\ log = ReportError) => (attempt = 0 /\ ~success)

\* one healed file failed its first invocation and passed the retry
C30_Witness ==
    /\ pc = "verify"
    /\ Len(healed_scripts) = 1
    /\ vpos > Len(healed_scripts)
    /\ calls.runner = max_retries + 1
    /\ success

====
